---------------------------- MODULE Spec2Model ----------------------------
(***************************************************************************)
(* FreshSaver inventory engine (src/src/lib/tambo.ts, lines 192-351):      *)
(* normalize, resolveInventoryItem, getInventory, findInventoryMatches,    *)
(* getExpiringItems and estimateLossForItem over the module-level array    *)
(* `inventory`.                                                            *)
(*                                                                         *)
(* Representation                                                          *)
(*   string            a sequence of one-character strings                 *)
(*   optional value    a set with at most one element ({} is undefined)    *)
(*   number (quantity) a record [kind, val]: finite, NaN, +/-Infinity      *)
(*   matchConfidence   an integer number of 1/ConfScale units              *)
(*   object identity   the field id of an item (its index at load time)    *)
(* The item fields unit, location and shelfLifeDays are read by none of    *)
(* the functions and are left out.                                         *)
(*                                                                         *)
(* FlashSaleBuilder (src/src/components/tambo/flash-sale-builder.tsx):     *)
(* the discount slider and the two memoized values shown with it, in the   *)
(* double-precision arithmetic of the language, and the email panel with   *)
(* its selection of consumers and its send button.                         *)
(***************************************************************************)
EXTENDS Integers, Sequences, FiniteSets, TLC

VARIABLES
    inventoryData,  \* the array imported from inventory.json, as loaded
    inventory,      \* the module-level array the functions read
    call,           \* the last call: [op, arg]
    result,         \* the value that call returned
    path,           \* the return statement that produced it
    suspended,      \* the estimateLossForItem calls waiting at their await
    sale            \* the FlashSaleBuilder on screen, if any

engine == <<inventoryData, inventory, call, result, path, suspended>>

vars == <<inventoryData, inventory, call, result, path, suspended, sale>>

-----------------------------------------------------------------------------
(* Bounds *)

\* longest catalog built from the full item pool
MaxShort == 1
\* longest catalog (a run of the item cycle)
MaxItems == 6
\* most estimateLossForItem calls waiting at their await at once
MaxSuspended == 2

\* the reset timers of the sale component that may be pending at once
MaxTimers == 2

-----------------------------------------------------------------------------
(* Program constants *)

PrimaryLimit == 5
FuzzyLimit == 3
DefaultWithinDays == 30

\* confidences are counted in units of 1/ConfScale; ConfScale is a multiple
\* of 100 and of every token count 1..6, so every confidence the code computes
\* for names of up to six tokens is a whole number of units
ConfScale == 100 * 12
ConfSku == ConfScale
ConfName == (9 * ConfScale) \div 10
ConfBrand == (6 * ConfScale) \div 10
ConfCategory == (4 * ConfScale) \div 10
FuzzyFloor == (2 * ConfScale) \div 10
FuzzyThreshold == (3 * ConfScale) \div 10
FuzzyLengthPenalty == (2 * ConfScale) \div 100

-----------------------------------------------------------------------------
(* Strings *)

Min(a, b) == IF a <= b THEN a ELSE b
Max(a, b) == IF a >= b THEN a ELSE b
Abs(a) == IF a >= 0 THEN a ELSE 0 - a

IsSpace(c) == c \in {" ", "\t"}

LowerChar(c) ==
    CASE c = "A" -> "a"
      [] c = "B" -> "b"
      [] c = "C" -> "c"
      [] c = "D" -> "d"
      [] c = "G" -> "g"
      [] c = "H" -> "h"
      [] c = "I" -> "i"
      [] c = "M" -> "m"
      [] OTHER -> c

ToLocaleLowerCase(s) == [i \in DOMAIN s |-> LowerChar(s[i])]

Trim(s) ==
    LET keep == {i \in DOMAIN s : ~IsSpace(s[i])}
    IN  IF keep = {} THEN <<>>
        ELSE LET first == CHOOSE i \in keep : \A j \in keep : i <= j
                 last == CHOOSE i \in keep : \A j \in keep : i >= j
             IN  SubSeq(s, first, last)

\* hay.includes(needle)
Includes(hay, needle) ==
    \E i \in 0..(Len(hay) - Len(needle)) :
        SubSeq(hay, i + 1, i + Len(needle)) = needle

\* s.split(" "): the pieces between single spaces, empty pieces included
RECURSIVE Split(_)
Split(s) ==
    LET sp == {i \in DOMAIN s : s[i] = " "}
    IN  IF sp = {} THEN <<s>>
        ELSE LET k == CHOOSE i \in sp : \A j \in sp : i <= j
             IN  <<SubSeq(s, 1, k - 1)>> \o Split(SubSeq(s, k + 1, Len(s)))

\* the lower-case form left untrimmed
Normalize_NoTrim(value) ==
    IF value = {} THEN <<>>
    ELSE ToLocaleLowerCase(CHOOSE s \in value : TRUE)

\* value?.toLocaleLowerCase().trim() ?? ""
Normalize(value) ==
    IF value = {} THEN <<>>
    ELSE Trim(ToLocaleLowerCase(CHOOSE s \in value : TRUE))

\* a JavaScript string is truthy when it is not empty
Truthy(s) == s # <<>>

-----------------------------------------------------------------------------
(* Arrays *)

\* the sequence s itself, written out element by element
Array(s) == SubSeq(s, 1, Len(s))

\* Array.prototype.sort with a numeric comparator: stable, ascending by key
StableSortByKey(s, key) ==
    LET n == Len(s)
        k == Array(key)
        Pos(i) == Cardinality({j \in 1..n :
                      k[j] < k[i] \/ (k[j] = k[i] /\ j < i)}) + 1
    IN  Array([p \in 1..n |-> s[CHOOSE i \in 1..n : Pos(i) = p]])

\* s.slice(0, k)
Slice(s, k) == SubSeq(s, 1, Min(k, Len(s)))

\* Array.prototype.find: the first element that satisfies Test, or undefined
FirstIndex(hits) == CHOOSE i \in hits : \A j \in hits : i <= j

-----------------------------------------------------------------------------
(* Numbers *)

Finite(n) == [kind |-> "finite", val |-> n]
NaN == [kind |-> "NaN", val |-> 0]
PosInfinity == [kind |-> "Infinity", val |-> 0]
NegInfinity == [kind |-> "-Infinity", val |-> 0]

\* quantity <= 0 (false for NaN)
LeZero(q) == \/ q.kind = "finite" /\ q.val <= 0
             \/ q.kind = "-Infinity"
NumberIsFinite(q) == q.kind = "finite"

-----------------------------------------------------------------------------
(* resolveInventoryItem *)

ExactHits(inv, normalizedQuery) ==
    {i \in DOMAIN inv :
        \/ Normalize({inv[i].sku}) = normalizedQuery
        \/ Normalize({inv[i].name}) = normalizedQuery}

\* the substring pass looking into the SKU as well as the name
SubstringHits_SkuToo(inv, normalizedQuery) ==
    {i \in DOMAIN inv :
        \/ Includes(Normalize({inv[i].name}), normalizedQuery)
        \/ Includes(Normalize({inv[i].sku}), normalizedQuery)}

SubstringHits(inv, normalizedQuery) ==
    {i \in DOMAIN inv : Includes(Normalize({inv[i].name}), normalizedQuery)}

\* a single pass that takes the first item matching exactly or by substring
ResolveInventoryItem_OnePass(inv, query) ==
    LET normalizedQuery == Normalize({query})
        hits == ExactHits(inv, normalizedQuery)
                    \cup SubstringHits(inv, normalizedQuery)
    IN  IF ~Truthy(query) \/ ~Truthy(normalizedQuery) \/ hits = {} THEN {}
        ELSE {inv[FirstIndex(hits)]}

ResolveInventoryItem(inv, query) ==
    IF ~Truthy(query) THEN {}
    ELSE LET normalizedQuery == Normalize({query})
         IN  IF ~Truthy(normalizedQuery) THEN {}
             ELSE IF ExactHits(inv, normalizedQuery) # {}
                  THEN {inv[FirstIndex(ExactHits(inv, normalizedQuery))]}
             ELSE IF SubstringHits(inv, normalizedQuery) # {}
                  THEN {inv[FirstIndex(SubstringHits(inv, normalizedQuery))]}
             ELSE {}

-----------------------------------------------------------------------------
(* findInventoryMatches *)

\* query.f of an object that may lack the property f
Field(query, f) == IF f \in DOMAIN query THEN {query[f]} ELSE {}

Match(item, confidence, by) ==
    [item |-> item, matchConfidence |-> confidence, matchedBy |-> by]

SkuFires(sku, itemSku) == Truthy(sku) /\ itemSku = sku

NameFires(name, itemName) ==
    Truthy(name) /\ (Includes(itemName, name) \/ Includes(name, itemName))

\* the brand criterion without its non-empty test
BrandFires_Unguarded(brand, itemBrand) == Includes(itemBrand, brand)

BrandFires(brand, itemBrand) == Truthy(brand) /\ Includes(itemBrand, brand)

CategoryFires(category, itemCategory) ==
    Truthy(category) /\ Includes(itemCategory, category)

\* the brand criterion tried before the name criterion
MatchItem_BrandBeforeName(item, sku, name, brand, category) ==
    LET itemSku == Normalize({item.sku})
        itemName == Normalize({item.name})
        itemBrand == Normalize({item.brand})
        itemCategory == Normalize({item.category})
    IN  IF SkuFires(sku, itemSku) THEN {Match(item, ConfSku, "sku")}
        ELSE IF BrandFires(brand, itemBrand)
             THEN {Match(item, ConfBrand, "brand")}
        ELSE IF NameFires(name, itemName) THEN {Match(item, ConfName, "name")}
        ELSE IF CategoryFires(category, itemCategory)
             THEN {Match(item, ConfCategory, "category")}
        ELSE {}

\* the forEach callback: what one item pushes onto matches ({} is nothing)
MatchItem(item, sku, name, brand, category) ==
    LET itemSku == Normalize({item.sku})
        itemName == Normalize({item.name})
        itemBrand == Normalize({item.brand})
        itemCategory == Normalize({item.category})
    IN  IF SkuFires(sku, itemSku) THEN {Match(item, ConfSku, "sku")}
        ELSE IF NameFires(name, itemName) THEN {Match(item, ConfName, "name")}
        ELSE IF BrandFires(brand, itemBrand)
             THEN {Match(item, ConfBrand, "brand")}
        ELSE IF CategoryFires(category, itemCategory)
             THEN {Match(item, ConfCategory, "category")}
        ELSE {}

\* the array an inventory.forEach / map(...).filter(...) chain builds, given
\* what each item contributes ({} is nothing): the contributions, in
\* inventory order
Collect(contributions) ==
    LET pushed == Array(contributions)
        hits == {i \in DOMAIN pushed : pushed[i] # {}}
        Nth(p) == CHOOSE i \in hits : Cardinality({j \in hits : j < i}) = p - 1
    IN  Array([p \in 1..Cardinality(hits) |-> CHOOSE m \in pushed[Nth(p)] : TRUE])

\* one pass over inventory per criterion, an item pushed by each that fires
PrimaryMatches_PassPerCriterion(inv, query) ==
    LET sku == Normalize(Field(query, "sku"))
        name == Normalize(Field(query, "name"))
        brand == Normalize(Field(query, "brand"))
        category == Normalize(Field(query, "category"))
    IN  Collect([i \in DOMAIN inv |->
            MatchItem(inv[i], sku, <<>>, <<>>, <<>>)])
        \o Collect([i \in DOMAIN inv |->
            MatchItem(inv[i], <<>>, name, <<>>, <<>>)])
        \o Collect([i \in DOMAIN inv |->
            MatchItem(inv[i], <<>>, <<>>, brand, <<>>)])
        \o Collect([i \in DOMAIN inv |->
            MatchItem(inv[i], <<>>, <<>>, <<>>, category)])

PrimaryMatches(inv, query) ==
    LET sku == Normalize(Field(query, "sku"))
        name == Normalize(Field(query, "name"))
        brand == Normalize(Field(query, "brand"))
        category == Normalize(Field(query, "category"))
    IN  Collect([i \in DOMAIN inv |->
                    MatchItem(inv[i], sku, name, brand, category)])

\* the confidence without the penalty on the difference of lengths
FuzzyConfidence_NoLengthPenalty(itemName, name) ==
    LET tokens == Split(itemName)
        overlap == Cardinality({t \in DOMAIN tokens : Includes(name, tokens[t])})
    IN  Max(FuzzyFloor, (ConfScale * overlap) \div Max(1, Len(tokens)))

\* the distance taken between the numbers of tokens, not of characters
FuzzyConfidence_TokenDistance(itemName, name) ==
    LET tokens == Split(itemName)
        distance == Abs(Len(tokens) - Len(Split(name)))
        overlap == Cardinality({t \in DOMAIN tokens : Includes(name, tokens[t])})
    IN  Max(FuzzyFloor,
            (ConfScale * overlap) \div Max(1, Len(tokens))
                - distance * FuzzyLengthPenalty)

FuzzyConfidence(itemName, name) ==
    LET distance == Abs(Len(itemName) - Len(name))
        tokens == Split(itemName)
        overlap == Cardinality({t \in DOMAIN tokens : Includes(name, tokens[t])})
    IN  Max(FuzzyFloor,
            (ConfScale * overlap) \div Max(1, Len(tokens))
                - distance * FuzzyLengthPenalty)

\* the filter applied at the floor instead of the threshold
FuzzyKeeps_AtFloor(confidence) == confidence >= FuzzyFloor

FuzzyKeeps(confidence) == confidence > FuzzyThreshold

\* an unstable sort: equal confidences come out in reverse order
SortByConfidence_Unstable(matches) ==
    StableSortByKey(matches,
        [i \in DOMAIN matches |->
            0 - (matches[i].matchConfidence * (Len(matches) + 1) + i)])

SortByConfidence(matches) ==
    StableSortByKey(matches, [i \in DOMAIN matches |-> 0 - matches[i].matchConfidence])

FuzzyMatches(inv, name) ==
    LET Mapped(i) == Match(inv[i], FuzzyConfidence(Normalize({inv[i].name}), name),
                           "name")
        mapped == Array([i \in DOMAIN inv |-> Mapped(i)])
    IN  SortByConfidence(Collect([i \in DOMAIN inv |->
            IF FuzzyKeeps(mapped[i].matchConfidence) THEN {mapped[i]} ELSE {}]))

\* fuzzyMatches.slice(0, 3)
TopFuzzy(fuzzyMatches) == Slice(fuzzyMatches, FuzzyLimit)

\* the truncation applied before the sort
TopMatches_SliceThenSort(matches) ==
    SortByConfidence(Slice(matches, PrimaryLimit))

\* the truncation without the sort
TopMatches_Unsorted(matches) == Slice(matches, PrimaryLimit)

\* matches.sort((a, b) => b.matchConfidence - a.matchConfidence).slice(0, 5)
TopMatches(matches) == Slice(SortByConfidence(matches), PrimaryLimit)

\* the fallback entered whenever a name is given, matches or not
FallsBack_NameOnly(matches, name) == Truthy(name)

\* !matches.length && name
FallsBack(matches, name) == Len(matches) = 0 /\ Truthy(name)

\* the items returned moved to the front of inventory
FindInventoryMatches_ReordersInventory(inv, query) ==
    LET name == Normalize(Field(query, "name"))
        matches == PrimaryMatches(inv, query)
        fuzzyMatches == FuzzyMatches(inv, name)
        fuzzy == FallsBack(matches, name) /\ Len(fuzzyMatches) # 0
        returned == IF fuzzy THEN TopFuzzy(fuzzyMatches) ELSE TopMatches(matches)
        front == [p \in DOMAIN returned |-> returned[p].item]
        rest == Collect([i \in DOMAIN inv |->
                    IF \E p \in DOMAIN front : front[p].id = inv[i].id
                    THEN {} ELSE {inv[i]}])
    IN  [returned |-> returned,
         path |-> IF fuzzy THEN "fuzzy" ELSE "primary",
         inventory |-> front \o rest]

\* the call: the array returned, the return statement taken, and the
\* module-level array afterwards (matches and fuzzyMatches are fresh arrays,
\* so the in-place sorts leave inventory alone)
FindInventoryMatches(inv, query) ==
    LET name == Normalize(Field(query, "name"))
        matches == PrimaryMatches(inv, query)
        fuzzyMatches == FuzzyMatches(inv, name)
    IN  IF FallsBack(matches, name) /\ Len(fuzzyMatches) # 0
        THEN [returned |-> TopFuzzy(fuzzyMatches),
              path |-> "fuzzy", inventory |-> inv]
        ELSE [returned |-> TopMatches(matches),
              path |-> "primary", inventory |-> inv]

\* the call without a query object: reading query.sku of undefined throws a
\* TypeError before anything else is done, and the promise the async function
\* returns is rejected with it
FindInventoryMatchesOfUndefined(inv) ==
    [returned |-> <<"TypeError">>, path |-> "throw", inventory |-> inv]

-----------------------------------------------------------------------------
(* getExpiringItems *)

HasDays(item) == item.daysUntilExpiry # {}
Days(item) == CHOOSE d \in item.daysUntilExpiry : TRUE

\* the comparison made strict
ExpiryFilter_Strict(item, withinDays) ==
    HasDays(item) /\ Days(item) < withinDays

ExpiryFilter(item, withinDays) == HasDays(item) /\ Days(item) <= withinDays

\* a.daysUntilExpiry ?? 0
DaysOrZero(item) == IF HasDays(item) THEN Days(item) ELSE 0

SortByDays(items) ==
    StableSortByKey(items, [i \in DOMAIN items |-> DaysOrZero(items[i])])

\* sort applied to inventory itself, before the filter
GetExpiringItems_SortsInventory(inv, arg) ==
    LET withinDays == IF arg = {} THEN DefaultWithinDays
                      ELSE CHOOSE d \in arg : TRUE
        sorted == SortByDays(inv)
    IN  [returned |-> Collect([i \in DOMAIN sorted |->
                         IF ExpiryFilter(sorted[i], withinDays)
                         THEN {sorted[i]} ELSE {}]),
         inventory |-> sorted]

\* withinDays is DefaultWithinDays when the argument is undefined; filter
\* builds a fresh array, which sort then orders in place
GetExpiringItems(inv, arg) ==
    LET withinDays == IF arg = {} THEN DefaultWithinDays
                      ELSE CHOOSE d \in arg : TRUE
    IN  [returned |-> SortByDays(Collect([i \in DOMAIN inv |->
                         IF ExpiryFilter(inv[i], withinDays)
                         THEN {inv[i]} ELSE {}])),
         inventory |-> inv]

-----------------------------------------------------------------------------
(* estimateLossForItem *)

LossGuardRejects(nameOrSku, quantity) == ~Truthy(nameOrSku) \/ LeZero(quantity)

\* the item's quantityAtRisk preferred to the quantity supplied
EffectiveQuantity_AtRiskFirst(item, quantity) ==
    IF item.quantityAtRisk # {} THEN CHOOSE q \in item.quantityAtRisk : TRUE
    ELSE IF NumberIsFinite(quantity) THEN quantity.val
    ELSE 0

\* a quantity that is not finite replaced by 0, whatever the item has at risk
EffectiveQuantity_ZeroFallback(item, quantity) ==
    IF NumberIsFinite(quantity) THEN quantity.val ELSE 0

EffectiveQuantity(item, quantity) ==
    IF NumberIsFinite(quantity) THEN quantity.val
    ELSE IF item.quantityAtRisk # {}
         THEN CHOOSE q \in item.quantityAtRisk : TRUE
    ELSE 0

\* totalValue computed from the quantity supplied, not the effective one
LossEstimate_RawQuantity(item, quantity) ==
    [item |-> item,
     quantity |-> EffectiveQuantity(item, quantity),
     totalValue |-> item.unitPrice * quantity.val,
     perUnitValue |-> item.unitPrice]

LossEstimate(item, quantity) ==
    [item |-> item,
     quantity |-> EffectiveQuantity(item, quantity),
     totalValue |-> item.unitPrice * EffectiveQuantity(item, quantity),
     perUnitValue |-> item.unitPrice]

\* the query with the identifier as the name only
LossQuery_NameOnly(nameOrSku) ==
    [f \in {"name"} |-> nameOrSku]

LossQuery(nameOrSku) ==
    [f \in {"name", "sku"} |-> nameOrSku]

\* the function from its await on: matches is the array the promise of
\* findInventoryMatches resolved to
EstimateLossAfterAwait(matches, quantity) ==
    IF Len(matches) = 0
    THEN [returned |-> {}, path |-> "nomatch"]
    ELSE [returned |-> {LossEstimate(matches[1].item, quantity)},
          path |-> "estimate"]

\* the call run from its first line to its return
EstimateLossForItem(inv, nameOrSku, quantity) ==
    IF LossGuardRejects(nameOrSku, quantity)
    THEN [returned |-> {}, path |-> "guard", inventory |-> inv]
    ELSE LET found == FindInventoryMatches(inv, LossQuery(nameOrSku))
             after == EstimateLossAfterAwait(found.returned, quantity)
         IN  [returned |-> after.returned, path |-> after.path,
              inventory |-> found.inventory]

-----------------------------------------------------------------------------
(* Catalogs and inputs *)

Template(sku, name, brand, category, unitPrice, quantityAtRisk, daysUntilExpiry) ==
    [sku |-> sku, name |-> name, brand |-> brand, category |-> category,
     unitPrice |-> unitPrice, quantityAtRisk |-> quantityAtRisk,
     daysUntilExpiry |-> daysUntilExpiry]

\* "M1" / "Am Mi" / "Am" / "Da"
Milk == Template(<<"M", "1">>, <<"A", "m", " ", "M", "i">>, <<"A", "m">>, <<"D", "a">>, 72, {}, {2})
\* "g2" / "am gh" / "am" / "da"
Ghee == Template(<<"g", "2">>, <<"a", "m", " ", "g", "h">>, <<"a", "m">>, <<"d", "a">>, 30, {5}, {10})
\* "b3" / "br" / "ha" / "ba"
Bread == Template(<<"b", "3">>, <<"b", "r">>, <<"h", "a">>, <<"b", "a">>, 10, {}, {})
\* " m1 " / "mi" / "ne" / "da": Milk's SKU once normalized, a name inside Milk's
Toned == Template(<<" ", "m", "1", " ">>, <<"m", "i">>, <<"n", "e">>, <<"d", "a">>, 25, {4}, {31})
\* "am mi" / "bi" / "am" / "ba": a SKU that is Milk's normalized name
Biscuit == Template(<<"a", "m", " ", "m", "i">>, <<"b", "i">>, <<"a", "m">>, <<"b", "a">>, 40, {}, {30})
\* "x6" / "Cu " / "" / "da": no brand
Curd == Template(<<"x", "6">>, <<"C", "u", " ">>, <<>>, <<"d", "a">>, 5, {7}, {2})

\* "A7" / "Amul Milk 500ml" / "Am" / "Da"
AmulMilk == Template(<<"A", "7">>, <<"A", "m", "u", "l", " ", "M", "i", "l", "k", " ", "5", "0", "0", "m", "l">>, <<"A", "m">>, <<"D", "a">>, 28, {6}, {3})

\* every item once, in a fixed order
Cycle == <<Milk, Ghee, Bread, Toned, Biscuit, Curd, AmulMilk>>

\* k consecutive items of the cycle, from position o on
Run(o, k) == [i \in 1..k |-> Cycle[((o + i - 2) % Len(Cycle)) + 1]]

ItemPool == {Milk, Ghee, Bread, Toned, Biscuit, Curd}

\* inventoryData as InventoryItem[]: the objects of the file, in file order
Load(catalog) ==
    [i \in DOMAIN catalog |->
        [id |-> i, sku |-> catalog[i].sku, name |-> catalog[i].name,
         brand |-> catalog[i].brand, category |-> catalog[i].category,
         unitPrice |-> catalog[i].unitPrice,
         quantityAtRisk |-> catalog[i].quantityAtRisk,
         daysUntilExpiry |-> catalog[i].daysUntilExpiry]]

\* catalogs holding every kind of item at once
Scenarios ==
    {<<Ghee, Bread, Milk>>,
     <<Bread, Curd, Biscuit, Toned, Ghee, Milk>>,
     <<Milk, Ghee, Toned, Biscuit, Curd, Bread>>,
     <<AmulMilk>>,
     <<Bread, AmulMilk, Curd>>,
     <<Ghee, AmulMilk, Milk, Bread, Ghee, Milk>>}

\* the scenarios, every catalog of up to MaxShort items of the pool, and the
\* runs of the cycle up to MaxItems long
Catalogs ==
    Scenarios
    \cup UNION {[1..k -> ItemPool] : k \in 0..MaxShort}
    \cup {Run(o, k) : o \in DOMAIN Cycle, k \in (MaxShort + 1)..MaxItems}

Fields == {"sku", "name", "brand", "category"}

\* " ", "M1 ", "b3"
SkuInputs == {<<" ">>, <<"M", "1", " ">>, <<"b", "3">>}
\* "I think the amul milk is going bad"
LongName == <<"I", " ", "t", "h", "i", "n", "k", " ", "t", "h", "e", " ", "a", "m", "u", "l", " ", "m", "i", "l", "k", " ", "i", "s", " ", "g", "o", "i", "n", "g", " ", "b", "a", "d">>
\* "", "mi am", "gh", "Am Mi", "mi or am", and LongName
NameInputs ==
    {<<>>, <<"m", "i", " ", "a", "m">>, <<"g", "h">>, <<"A", "m", " ", "M", "i">>,
     <<"m", "i", " ", "o", "r", " ", "a", "m">>, LongName}
\* " ", "am"
BrandInputs == {<<" ">>, <<"a", "m">>}
\* tab, "a"
CategoryInputs == {<<"\t">>, <<"a">>}

\* undefined or one of the values
Optional(values) == {{}} \cup {{v} : v \in values}

\* the object whose properties are the fields given a value
QueryObject(sku, name, brand, category) ==
    LET given == [f \in Fields |->
                    CASE f = "sku" -> sku
                      [] f = "name" -> name
                      [] f = "brand" -> brand
                      [] f = "category" -> category]
    IN  [f \in {g \in Fields : given[g] # {}} |-> CHOOSE v \in given[f] : TRUE]

\* query objects: any subset of the four properties present
Queries ==
    {QueryObject(sku, name, brand, category) :
        sku \in Optional(SkuInputs), name \in Optional(NameInputs),
        brand \in Optional(BrandInputs), category \in Optional(CategoryInputs)}

\* "", " ", "Am Mi", "mi", "am gh", "M1", "mi am", "x"
Identifiers ==
    {<<>>, <<" ">>, <<"A", "m", " ", "M", "i">>, <<"m", "i">>, <<"a", "m", " ", "g", "h">>, <<"M", "1">>, <<"m", "i", " ", "a", "m">>, <<"x">>}

Quantities ==
    {NaN, PosInfinity, NegInfinity, Finite(0 - 5), Finite(0), Finite(50)}

WithinDaysInputs == {{}, {1}, {7}, {30}}

-----------------------------------------------------------------------------
(* Double-precision arithmetic *)

\* A JavaScript number is an IEEE 754 double.  The numbers of the sale
\* component are kept exactly.  A natural number is a sequence of limbs, which
\* are its digits to the base 2^LimbBits, lowest first and without leading
\* zeros.  A finite double that is not negative is m * 2^e with m such a
\* natural of at most MantissaBits bits.  Every operation rounds its exact
\* result to the nearest double, ties to the even mantissa.  Exponents stay
\* far from the limits of the format, so overflow and subnormal numbers do not
\* arise.

MantissaBits == 53

LimbBits == 15

\* bits of precision a quotient is computed to before it is rounded
QuotientBits == 80

RECURSIVE Pow2(_)
Pow2(k) == IF k = 0 THEN 1 ELSE 2 * Pow2(k - 1)

Base == Pow2(LimbBits)

RECURSIVE LimbsOf(_)
LimbsOf(n) == IF n = 0 THEN <<>> ELSE <<n % Base>> \o LimbsOf(n \div Base)

RECURSIVE NatOf(_)
NatOf(a) == IF a = <<>> THEN 0 ELSE a[1] + Base * NatOf(Tail(a))

Limb(a, i) == IF i \in DOMAIN a THEN a[i] ELSE 0

Rest(a) == IF a = <<>> THEN <<>> ELSE Tail(a)

\* a without its leading zero limbs
RECURSIVE Canonical(_)
Canonical(a) ==
    IF a = <<>> \/ a[Len(a)] # 0 THEN a
    ELSE Canonical(SubSeq(a, 1, Len(a) - 1))

RECURSIVE PlusCarry(_, _, _)
PlusCarry(a, b, carry) ==
    IF a = <<>> /\ b = <<>> THEN LimbsOf(carry)
    ELSE <<(Limb(a, 1) + Limb(b, 1) + carry) % Base>>
             \o PlusCarry(Rest(a), Rest(b),
                          (Limb(a, 1) + Limb(b, 1) + carry) \div Base)

Plus(a, b) == PlusCarry(a, b, 0)

\* a - b for a >= b
RECURSIVE MinusBorrow(_, _, _)
MinusBorrow(a, b, borrow) ==
    IF a = <<>> THEN <<>>
    ELSE <<(a[1] - Limb(b, 1) - borrow + Base) % Base>>
             \o MinusBorrow(Tail(a), Rest(b),
                            IF a[1] - Limb(b, 1) - borrow < 0 THEN 1 ELSE 0)

Minus(a, b) == Canonical(MinusBorrow(a, b, 0))

\* a * x + carry for a limb x
RECURSIVE TimesLimb(_, _, _)
TimesLimb(a, x, carry) ==
    IF a = <<>> THEN LimbsOf(carry)
    ELSE <<(a[1] * x + carry) % Base>>
             \o TimesLimb(Tail(a), x, (a[1] * x + carry) \div Base)

RECURSIVE Times(_, _)
Times(a, b) ==
    IF b = <<>> THEN <<>>
    ELSE Canonical(Plus(TimesLimb(a, b[1], 0), <<0>> \o Times(a, Tail(b))))

\* one step of the long division by n: high is the quotient and remainder of
\* the limbs above limb
DivModStep(high, limb, n) ==
    [q |-> IF high.q = <<>> /\ high.r * Base + limb < n THEN <<>>
           ELSE <<(high.r * Base + limb) \div n>> \o high.q,
     r |-> (high.r * Base + limb) % n]

\* quotient and remainder of a by n, for 0 < n <= Base
RECURSIVE DivMod(_, _)
DivMod(a, n) ==
    IF a = <<>> THEN [q |-> <<>>, r |-> 0]
    ELSE DivModStep(DivMod(Tail(a), n), a[1], n)

\* a * 2^k
ShiftLeft(a, k) ==
    IF a = <<>> THEN <<>>
    ELSE [i \in 1..(k \div LimbBits) |-> 0]
             \o TimesLimb(a, Pow2(k % LimbBits), 0)

\* a \div 2^k
ShiftRight(a, k) ==
    DivMod(SubSeq(a, (k \div LimbBits) + 1, Len(a)), Pow2(k % LimbBits)).q

\* bit i of a, the lowest being bit 1
Bit(a, i) ==
    (Limb(a, ((i - 1) \div LimbBits) + 1) \div Pow2((i - 1) % LimbBits)) % 2

RECURSIVE BitLengthOfLimb(_)
BitLengthOfLimb(x) == IF x = 0 THEN 0 ELSE 1 + BitLengthOfLimb(x \div 2)

BitLength(a) ==
    IF a = <<>> THEN 0
    ELSE LimbBits * (Len(a) - 1) + BitLengthOfLimb(a[Len(a)])

\* the double nearest to the exact value (m + f) * 2^e, where 0 < f < 1 when
\* more is set and f = 0 otherwise; more is set only for m longer than
\* MantissaBits
RoundDropping(m, e, more, drop) ==
    LET kept == ShiftRight(m, drop)
        below == more \/ \E i \in 1..(drop - 1) : Bit(m, i) = 1
        up == Bit(m, drop) = 1 /\ (below \/ Bit(kept, 1) = 1)
    IN  [m |-> IF up THEN Plus(kept, <<1>>) ELSE kept, e |-> e + drop]

RoundToDouble(m, e, more) ==
    IF BitLength(m) <= MantissaBits THEN [m |-> m, e |-> e]
    ELSE RoundDropping(m, e, more, BitLength(m) - MantissaBits)

\* the double of an integer that is not negative
FromInt(n) == [m |-> LimbsOf(n), e |-> 0]

\* a / b, for b with a mantissa of one limb
Divide(a, b) ==
    RoundToDouble(DivMod(ShiftLeft(a.m, QuotientBits), NatOf(b.m)).q,
                  a.e - b.e - QuotientBits,
                  DivMod(ShiftLeft(a.m, QuotientBits), NatOf(b.m)).r # 0)

\* a - b for a >= b
Subtract(a, b) ==
    RoundToDouble(Minus(ShiftLeft(a.m, a.e - Min(a.e, b.e)),
                        ShiftLeft(b.m, b.e - Min(a.e, b.e))),
                  Min(a.e, b.e), FALSE)

Multiply(a, b) == RoundToDouble(Times(a.m, b.m), a.e + b.e, FALSE)

\* a is a whole number
IsInteger(a) ==
    a.e >= 0 \/ \A i \in 1..Min(0 - a.e, BitLength(a.m)) : Bit(a.m, i) = 0

\* Math.floor of a double that is not negative, as an integer
MathFloor(a) ==
    IF a.e >= 0 THEN NatOf(ShiftLeft(a.m, a.e))
    ELSE NatOf(ShiftRight(a.m, 0 - a.e))

\* Math.ceil of a double that is not negative, as an integer
MathCeil(a) == IF IsInteger(a) THEN MathFloor(a) ELSE MathFloor(a) + 1

-----------------------------------------------------------------------------
(* FlashSaleBuilder *)

\* The component instance is the record sale: its props currentPrice, stock
\* (number records as above) and category (an optional string), its state
\* discount, showEmailPanel, selectedConsumers and emailsSent, the number of
\* setTimeout callbacks it has pending, the values useMemo keeps with the
\* dependencies they were computed from, and what the last render shows.  The
\* discount, the new price and the recovered revenue are whole numbers and
\* kept as integers.

InitialDiscount == 30
SliderMin == 10
SliderMax == 90
SliderStep == 5

Unmounted == [mounted |-> FALSE]

DigitChars == <<"0", "1", "2", "3", "4", "5", "6", "7", "8", "9">>

\* String(n) for a whole number n >= 0
RECURSIVE DigitsOf(_)
DigitsOf(n) ==
    IF n < 10 THEN <<DigitChars[n + 1]>>
    ELSE DigitsOf(n \div 10) \o <<DigitChars[(n % 10) + 1]>>

DigitOf(c) == CHOOSE i \in 0..9 : DigitChars[i + 1] = c

\* Number(s) for a string of decimal digits
RECURSIVE ToNumber(_)
ToNumber(s) ==
    IF s = <<>> THEN 0
    ELSE 10 * ToNumber(SubSeq(s, 1, Len(s) - 1)) + DigitOf(s[Len(s)])

\* the values event.target.value can take: the range input keeps its value on
\* the steps from min to max
SliderValues ==
    {DigitsOf(SliderMin + SliderStep * k) :
        k \in 0..((SliderMax - SliderMin) \div SliderStep)}

\* 1 - normalizedDiscount / 100; the discount in the state is always a finite
\* number, so normalizedDiscount is the discount
Remaining(discount) ==
    Subtract(FromInt(1), Divide(FromInt(discount), FromInt(100)))

\* the callback of the newPrice memo.  The product of a negative base price
\* is the negated product of its magnitude, and its floor the negated ceiling;
\* rawPrice is finite whenever basePrice is.
NewPrice(currentPrice, discount) ==
    IF ~NumberIsFinite(currentPrice) THEN 0
    ELSE IF currentPrice.val >= 0
    THEN Max(MathFloor(Multiply(FromInt(currentPrice.val), Remaining(discount))), 0)
    ELSE Max(0 - MathCeil(Multiply(FromInt(0 - currentPrice.val),
                                   Remaining(discount))), 0)

\* the callback of the recoveredRevenue memo
RecoveredRevenue(newPrice, stock) ==
    newPrice * (IF NumberIsFinite(stock) THEN Max(stock.val, 0) ELSE 0)

\* useMemo: the kept value while the dependencies are the same, else the
\* callback's value
NoMemo == [deps |-> <<>>, value |-> 0]

UseMemo(memo, deps, value) ==
    IF memo.deps = deps THEN memo ELSE [deps |-> deps, value |-> value]

\* digits in the groups of the en-IN locale: the last three, then twos
RECURSIVE GroupTwos(_)
GroupTwos(digits) ==
    IF Len(digits) <= 2 THEN digits
    ELSE GroupTwos(SubSeq(digits, 1, Len(digits) - 2))
             \o <<",">> \o SubSeq(digits, Len(digits) - 1, Len(digits))

GroupDigits(digits) ==
    IF Len(digits) <= 3 THEN digits
    ELSE GroupTwos(SubSeq(digits, 1, Len(digits) - 3))
             \o <<",">> \o SubSeq(digits, Len(digits) - 2, Len(digits))

\* formatCurrency of a whole number >= 0
FormatCurrency(value) == <<"₹">> \o GroupDigits(DigitsOf(value))

\* consumers.json as Consumer[]: the fields the component reads.  "c1" prefers
\* "Da", "c2" prefers "ba" and "DA", "c3" has no preference, "c4" prefers "Da"
\* and is not subscribed.
Consumer(id, subscribed, preferredCategories) ==
    [id |-> id, subscribed |-> subscribed,
     preferredCategories |-> preferredCategories]

Consumers ==
    <<Consumer("c1", TRUE, <<<<"D", "a">>>>),
      Consumer("c2", TRUE, <<<<"b", "a">>, <<"D", "A">>>>),
      Consumer("c3", TRUE, <<>>),
      Consumer("c4", FALSE, <<<<"D", "a">>>>)>>

\* Array.prototype.filter: keeps[i] tells whether s[i] stays
Filter(s, keeps) ==
    Collect([i \in DOMAIN s |-> IF keeps[i] THEN {s[i]} ELSE {}])

\* String.prototype.toLowerCase
ToLowerCase(s) == [i \in DOMAIN s |-> LowerChar(s[i])]

\* the filter of relevantConsumers; category is the optional prop
IsRelevant(c, category) ==
    IF ~c.subscribed THEN FALSE
    ELSE IF category # {} /\ Truthy(CHOOSE s \in category : TRUE)
            /\ Len(c.preferredCategories) > 0
    THEN \E i \in DOMAIN c.preferredCategories :
             ToLowerCase(c.preferredCategories[i])
                 = ToLowerCase(CHOOSE s \in category : TRUE)
    ELSE TRUE

\* the callback of the relevantConsumers memo
RelevantConsumers(category) ==
    Filter(Consumers, [i \in DOMAIN Consumers |-> IsRelevant(Consumers[i], category)])

\* relevantConsumers.filter((c) => selectedConsumers.has(c.id))
SelectedList(relevantConsumers, selectedConsumers) ==
    Filter(relevantConsumers,
           [i \in DOMAIN relevantConsumers |->
               relevantConsumers[i].id \in selectedConsumers])

\* relevantConsumers.map((c) => c.id), as the set built from it
IdsOf(consumers) == {consumers[i].id : i \in DOMAIN consumers}

\* the send button disabled while nothing is selected only
SendDisabled_WhileNoneSelected(selectedConsumers, emailsSent) ==
    Cardinality(selectedConsumers) = 0

\* the disabled attribute of the send button
SendDisabled(selectedConsumers, emailsSent) ==
    Cardinality(selectedConsumers) = 0 \/ emailsSent

\* the send button: whether it is disabled and the count in its label
SendButton(selectedConsumers, selectedList, emailsSent) ==
    [disabled |-> SendDisabled(selectedConsumers, emailsSent),
     count |-> IF emailsSent THEN Len(selectedList)
               ELSE Cardinality(selectedConsumers)]

\* one render of the component: the props, the discount, and in last the
\* instance as the event left it (the rest of the state, the pending timers
\* and the memos)
RenderWith(currentPrice, stock, category, discount, newPrice, relevantConsumers, last) ==
    [mounted |-> TRUE,
     currentPrice |-> currentPrice,
     stock |-> stock,
     category |-> category,
     discount |-> discount,
     showEmailPanel |-> last.showEmailPanel,
     selectedConsumers |-> last.selectedConsumers,
     emailsSent |-> last.emailsSent,
     timers |-> last.timers,
     newPrice |-> newPrice,
     recoveredRevenue |->
         UseMemo(last.recoveredRevenue, <<newPrice.value, stock>>,
                 RecoveredRevenue(newPrice.value, stock)),
     relevantConsumers |-> relevantConsumers,
     selectedList |->
         SelectedList(relevantConsumers.value, last.selectedConsumers),
     shown |->
         [newPrice |-> FormatCurrency(newPrice.value),
          recoveredRevenue |->
              FormatCurrency(
                  UseMemo(last.recoveredRevenue, <<newPrice.value, stock>>,
                          RecoveredRevenue(newPrice.value, stock)).value),
          sendButton |->
              SendButton(last.selectedConsumers,
                         SelectedList(relevantConsumers.value,
                                      last.selectedConsumers),
                         last.emailsSent)]]

Render(currentPrice, stock, category, discount, last) ==
    RenderWith(currentPrice, stock, category, discount,
               UseMemo(last.newPrice, <<currentPrice, discount>>,
                       NewPrice(currentPrice, discount)),
               UseMemo(last.relevantConsumers, <<category>>,
                       RelevantConsumers(category)),
               last)

\* the first render: the initial values of the useState calls and no memo yet
FirstRender(currentPrice, stock, category) ==
    Render(currentPrice, stock, category, InitialDiscount,
           [showEmailPanel |-> FALSE, selectedConsumers |-> {},
            emailsSent |-> FALSE, timers |-> 0,
            newPrice |-> NoMemo, recoveredRevenue |-> NoMemo,
            relevantConsumers |-> NoMemo])

\* the render that follows a change of state
Rerender(last) ==
    Render(last.currentPrice, last.stock, last.category, last.discount, last)

-----------------------------------------------------------------------------
(* The state machine *)

Idle == [op |-> "idle", arg |-> <<>>]

Init ==
    /\ \E catalog \in Catalogs :
          /\ inventoryData = Load(catalog)
          /\ inventory = Load(catalog)
    /\ call = Idle
    /\ result = <<>>
    /\ path = "idle"
    /\ suspended = <<>>
    /\ sale = Unmounted

\* getInventory: returns the module-level array itself
GetInventory ==
    /\ call.op = "idle"
    /\ call' = [op |-> "getInventory", arg |-> <<>>]
    /\ result' = inventory
    /\ path' = "return"
    /\ UNCHANGED <<inventoryData, inventory, suspended, sale>>

FindInventoryMatchesCall ==
    /\ call.op = "idle"
    /\ \E query \in Queries :
          \E out \in {FindInventoryMatches(inventory, query)} :
              /\ call' = [op |-> "findInventoryMatches", arg |-> query]
              /\ result' = out.returned
              /\ path' = out.path
              /\ inventory' = out.inventory
              /\ UNCHANGED <<inventoryData, suspended, sale>>

\* findInventoryMatches(undefined); result holds the error thrown
FindInventoryMatchesUndefinedCall ==
    /\ call.op = "idle"
    /\ \E out \in {FindInventoryMatchesOfUndefined(inventory)} :
          /\ call' = [op |-> "findInventoryMatches(undefined)", arg |-> <<>>]
          /\ result' = out.returned
          /\ path' = out.path
          /\ inventory' = out.inventory
          /\ UNCHANGED <<inventoryData, suspended, sale>>

ResolveInventoryItemCall ==
    /\ call.op = "idle"
    /\ \E query \in Identifiers :
          /\ call' = [op |-> "resolveInventoryItem", arg |-> query]
          /\ result' = ResolveInventoryItem(inventory, query)
          /\ path' = "return"
          /\ UNCHANGED <<inventoryData, inventory, suspended, sale>>

GetExpiringItemsCall ==
    /\ call.op = "idle"
    /\ \E withinDays \in WithinDaysInputs :
          \E out \in {GetExpiringItems(inventory, withinDays)} :
              /\ call' = [op |-> "getExpiringItems", arg |-> withinDays]
              /\ result' = out.returned
              /\ path' = "return"
              /\ inventory' = out.inventory
              /\ UNCHANGED <<inventoryData, suspended, sale>>

\* the await on findInventoryMatches is taken within the step: the callee
\* runs to its return before the caller suspends
EstimateLossForItemCall ==
    /\ call.op = "idle"
    /\ \E nameOrSku \in Identifiers, quantity \in Quantities :
          \E out \in {EstimateLossForItem(inventory, nameOrSku, quantity)} :
              /\ call' = [op |-> "estimateLossForItem",
                          arg |-> [nameOrSku |-> nameOrSku, quantity |-> quantity]]
              /\ result' = out.returned
              /\ path' = out.path
              /\ inventory' = out.inventory
              /\ UNCHANGED <<inventoryData, suspended, sale>>

\* the caller takes the returned value; the next call can follow
TakeResult ==
    /\ call.op # "idle"
    /\ call' = Idle
    /\ result' = <<>>
    /\ path' = "idle"
    /\ UNCHANGED <<inventoryData, inventory, suspended, sale>>

Next ==
    \/ GetInventory
    \/ FindInventoryMatchesCall
    \/ FindInventoryMatchesUndefinedCall
    \/ ResolveInventoryItemCall
    \/ GetExpiringItemsCall
    \/ EstimateLossForItemCall
    \/ TakeResult

Spec == Init /\ [][Next]_vars

-----------------------------------------------------------------------------
(* Calls that overlap *)

\* estimateLossForItem is the one function that awaits: it runs to the await
\* on findInventoryMatches, whose body has no await and so has run to its
\* return by then, and goes on in a later microtask.  Every other function
\* runs from call to return in one piece.  The calls made before that
\* microtask runs are the calls that overlap the suspended one.

AsyncCatalogs ==
    {<<Ghee, Bread, Milk>>, <<Bread, Curd, Biscuit, Toned, Ghee, Milk>>}

\* "Am Mi", "mi"
AsyncIdentifiers == {<<"A", "m", " ", "M", "i">>, <<"m", "i">>}

AsyncQuantities == {NaN, Finite(50)}

InitAsync ==
    /\ \E catalog \in AsyncCatalogs :
          /\ inventoryData = Load(catalog)
          /\ inventory = Load(catalog)
    /\ call = Idle
    /\ result = <<>>
    /\ path = "idle"
    /\ suspended = <<>>
    /\ sale = Unmounted

\* the call up to its await: the guard passed, findInventoryMatches ran, the
\* array it resolved to is kept with the arguments
EstimateLossForItemBegin ==
    /\ call.op = "idle"
    /\ Len(suspended) < MaxSuspended
    /\ \E nameOrSku \in AsyncIdentifiers, quantity \in AsyncQuantities :
          /\ ~LossGuardRejects(nameOrSku, quantity)
          /\ \E found \in {FindInventoryMatches(inventory, LossQuery(nameOrSku))} :
                /\ suspended' = Append(suspended,
                                    [nameOrSku |-> nameOrSku, quantity |-> quantity,
                                     matches |-> found.returned])
                /\ inventory' = found.inventory
                /\ UNCHANGED <<inventoryData, call, result, path, sale>>

\* the microtask of the call that has waited longest: the rest of the
\* function, to its return
EstimateLossForItemResume ==
    /\ call.op = "idle"
    /\ suspended # <<>>
    /\ \E frame \in {Head(suspended)} :
          \E out \in {EstimateLossAfterAwait(frame.matches, frame.quantity)} :
              /\ call' = [op |-> "estimateLossForItem",
                          arg |-> [nameOrSku |-> frame.nameOrSku,
                                   quantity |-> frame.quantity]]
              /\ result' = out.returned
              /\ path' = out.path
              /\ suspended' = Tail(suspended)
              /\ UNCHANGED <<inventoryData, inventory, sale>>

NextAsync ==
    \/ GetInventory
    \/ FindInventoryMatchesCall
    \/ ResolveInventoryItemCall
    \/ GetExpiringItemsCall
    \/ EstimateLossForItemCall
    \/ EstimateLossForItemBegin
    \/ EstimateLossForItemResume
    \/ TakeResult

SpecAsync == InitAsync /\ [][NextAsync]_vars

-----------------------------------------------------------------------------
(* The sale component on screen *)

\* The props the component is rendered with.  The schema asks for numbers
\* that are not negative; the component itself takes any number and guards
\* against the others, so they are among the inputs.
Prices ==
    {NaN, Finite(0 - 40), Finite(0), Finite(72), Finite(90), Finite(170),
     Finite(250)}

Stocks == {NaN, Finite(0 - 2), Finite(0), Finite(4), Finite(12)}

InitSale ==
    /\ inventoryData = Load(<<AmulMilk>>)
    /\ inventory = Load(<<AmulMilk>>)
    /\ call = Idle
    /\ result = <<>>
    /\ path = "idle"
    /\ suspended = <<>>
    /\ \E currentPrice \in Prices, stock \in Stocks :
          sale = FirstRender(currentPrice, stock, {})

\* the slider's onChange: setDiscount(Number(event.target.value)) and the
\* render that follows
SetDiscount ==
    /\ \E value \in SliderValues :
          sale' = Render(sale.currentPrice, sale.stock, sale.category,
                         ToNumber(value), sale)
    /\ UNCHANGED engine

\* the parent renders the component with other props
ReceiveProps ==
    /\ \E currentPrice \in Prices, stock \in Stocks :
          sale' = Render(currentPrice, stock, sale.category, sale.discount, sale)
    /\ UNCHANGED engine

NextSale ==
    \/ SetDiscount
    \/ ReceiveProps

SpecSale == InitSale /\ [][NextSale]_vars

-----------------------------------------------------------------------------
(* The email panel of the sale component *)

\* the category prop: undefined, "", "Da", "ba"
Categories == Optional({<<>>, <<"D", "a">>, <<"b", "a">>})

InitEmail ==
    /\ inventoryData = Load(<<AmulMilk>>)
    /\ inventory = Load(<<AmulMilk>>)
    /\ call = Idle
    /\ result = <<>>
    /\ path = "idle"
    /\ suspended = <<>>
    /\ \E category \in Categories :
          sale = FirstRender(Finite(90), Finite(4), category)

\* the parent renders the component with another category
ReceiveCategory ==
    /\ \E category \in Categories :
          sale' = Render(sale.currentPrice, sale.stock, category,
                         sale.discount, sale)
    /\ UNCHANGED engine

\* the button that shows and hides the panel
ToggleEmailPanel ==
    /\ sale' = Rerender([sale EXCEPT !.showEmailPanel = ~sale.showEmailPanel])
    /\ UNCHANGED engine

\* toggleConsumer, from the checkbox of one of the consumers listed
ToggleConsumer ==
    /\ sale.showEmailPanel
    /\ \E id \in IdsOf(sale.relevantConsumers.value) :
          sale' = Rerender([sale EXCEPT !.selectedConsumers =
                               IF id \in sale.selectedConsumers
                               THEN sale.selectedConsumers \ {id}
                               ELSE sale.selectedConsumers \cup {id}])
    /\ UNCHANGED engine

SelectAll ==
    /\ sale.showEmailPanel
    /\ sale' = Rerender([sale EXCEPT !.selectedConsumers =
                            IdsOf(sale.relevantConsumers.value)])
    /\ UNCHANGED engine

DeselectAll ==
    /\ sale.showEmailPanel
    /\ sale' = Rerender([sale EXCEPT !.selectedConsumers = {}])
    /\ UNCHANGED engine

\* sendEmails, from the send button, which takes no click while disabled
SendEmails ==
    /\ sale.showEmailPanel
    /\ ~sale.shown.sendButton.disabled
    /\ sale.timers < MaxTimers
    /\ sale' = Rerender([sale EXCEPT !.emailsSent = TRUE,
                                     !.timers = sale.timers + 1])
    /\ UNCHANGED engine

\* the callback of setTimeout: setEmailsSent(false)
EmailsSentTimeout ==
    /\ sale.timers > 0
    /\ sale' = Rerender([sale EXCEPT !.emailsSent = FALSE,
                                     !.timers = sale.timers - 1])
    /\ UNCHANGED engine

NextEmail ==
    \/ ReceiveCategory
    \/ ToggleEmailPanel
    \/ ToggleConsumer
    \/ SelectAll
    \/ DeselectAll
    \/ SendEmails
    \/ EmailsSentTimeout

\* a timer that is pending fires
SpecEmail == InitEmail /\ [][NextEmail]_vars /\ WF_vars(EmailsSentTimeout)

-----------------------------------------------------------------------------
(* Properties of findInventoryMatches *)

IsFind == call.op = "findInventoryMatches"

\* a query field that is absent, empty or made of whitespace only
BlankField(query, f) ==
    f \notin DOMAIN query \/ \A i \in DOMAIN query[f] : query[f][i] \in {" ", "\t"}

AllBlank(query) == \A f \in Fields : BlankField(query, f)

\* C1: a query whose sku, name, brand and category are all absent, empty or
\* whitespace-only is answered with the empty sequence, whatever the catalog.
C1_BlankQueryMatchesNothing ==
    (IsFind /\ AllBlank(call.arg)) => result = <<>>

\* all four fields given but blank, against a catalog with an item whose
\* brand is empty
C1_Witness ==
    /\ IsFind
    /\ DOMAIN call.arg = Fields
    /\ AllBlank(call.arg)
    /\ call.arg["sku"] # <<>>
    /\ \E i \in DOMAIN inventory :
          inventory[i].brand = <<>>
    /\ result = <<>>

SkuOnly(query) ==
    /\ ~BlankField(query, "sku")
    /\ \A f \in Fields \ {"sku"} : BlankField(query, f)

\* the catalog positions whose normalized SKU is the normalized query SKU
SkuHits ==
    {i \in DOMAIN inventory :
        Normalize({inventory[i].sku}) = Normalize(Field(call.arg, "sku"))}

Least(S) == CHOOSE i \in S : \A j \in S : i <= j

\* C2: a query with only sku set: when exactly one catalog item has that
\* normalized SKU the result is that one item with confidence 1.0 and
\* matchedBy sku; when several items share it, the first result is the first
\* of them in catalog order.
C2_ExactSku ==
    (IsFind /\ SkuOnly(call.arg)) =>
        /\ Cardinality(SkuHits) = 1 =>
              result = <<[item |-> inventory[Least(SkuHits)],
                          matchConfidence |-> ConfScale, matchedBy |-> "sku"]>>
        /\ Cardinality(SkuHits) > 1 =>
              /\ Len(result) >= 1
              /\ result[1].item = inventory[Least(SkuHits)]

\* two items share the SKU once normalized, neither is first in the catalog
\* nor written like the query
C2_Witness ==
    /\ IsFind
    /\ SkuOnly(call.arg)
    /\ Cardinality(SkuHits) = 2
    /\ 1 \notin SkuHits
    /\ \A i \in SkuHits : inventory[i].sku # call.arg["sku"]
    /\ \E i, j \in SkuHits : inventory[i].sku # inventory[j].sku
    /\ Len(result) = 2
    /\ result[1].item.id = Least(SkuHits)

NonIncreasing(matches) ==
    \A i, j \in DOMAIN matches :
        i < j => matches[i].matchConfidence >= matches[j].matchConfidence

\* C3: the returned sequence is non-increasing in matchConfidence, at most 5
\* long when the primary pass produced it and at most 3 long when the fuzzy
\* fallback did.
C3_RankedAndTruncated ==
    IsFind =>
        /\ NonIncreasing(result)
        /\ path = "primary" => Len(result) <= 5
        /\ path = "fuzzy" => Len(result) <= 3

\* six primary matches in three tiers, found in another order than returned
C3_Witness ==
    /\ IsFind
    /\ path = "primary"
    /\ Len(PrimaryMatches(inventory, call.arg)) = 6
    /\ Len(result) = 5
    /\ Cardinality({result[i].matchConfidence : i \in DOMAIN result}) = 3
    /\ \E i \in 1..(Len(result) - 1) : result[i].item.id > result[i + 1].item.id

\* C4: primary-pass results carry exactly (1.0, sku), (0.9, name),
\* (0.6, brand) or (0.4, category); fuzzy results carry a confidence above 0.3
\* and at most 1.0; no confidence is outside [0, 1].
C4_ConfidenceValues ==
    IsFind =>
        \A i \in DOMAIN result :
            LET c == result[i].matchConfidence
                by == result[i].matchedBy
            IN  /\ 0 <= c /\ c <= ConfScale
                /\ path = "primary" =>
                      \/ 10 * c = 10 * ConfScale /\ by = "sku"
                      \/ 10 * c = 9 * ConfScale /\ by = "name"
                      \/ 10 * c = 6 * ConfScale /\ by = "brand"
                      \/ 10 * c = 4 * ConfScale /\ by = "category"
                /\ path = "fuzzy" => 10 * c > 3 * ConfScale

\* a fuzzy answer with a confidence strictly inside (0.3, 1.0), given while
\* another item of the catalog stayed below the threshold
C4_Witness ==
    /\ IsFind
    /\ path = "fuzzy"
    /\ Len(result) < Len(inventory)
    /\ \E i \in DOMAIN result :
          /\ 10 * result[i].matchConfidence > 3 * ConfScale
          /\ result[i].matchConfidence < ConfScale

-----------------------------------------------------------------------------
(* Properties of estimateLossForItem *)

IsEstimate == call.op = "estimateLossForItem"

\* quantity > 0 (false for NaN)
GtZero(q) == \/ q.kind = "finite" /\ q.val > 0
             \/ q.kind = "Infinity"

\* C5: estimateLoss returns none whenever nameOrSku is empty or quantity > 0
\* does not hold (0, a negative quantity, or a quantity for which the
\* comparison quantity > 0 is false), for any identifier and catalog.
C5_PreconditionReturnsNone ==
    (IsEstimate /\ (call.arg.nameOrSku = <<>> \/ ~GtZero(call.arg.quantity)))
        => result = {}

TheEstimate == CHOOSE e \in result : TRUE

\* the catalog positions whose name is the identifier as written
NamedExactly == {i \in DOMAIN inventory : inventory[i].name = call.arg.nameOrSku}

Describes(estimate, item, q) ==
    /\ estimate.perUnitValue = item.unitPrice
    /\ estimate.quantity = q
    /\ estimate.totalValue = item.unitPrice * q

\* C6 as claimed: for any catalog containing an item X, estimateLoss with X's
\* exact name and a finite quantity q > 0 returns perUnitValue = X.unitPrice,
\* quantity = q and totalValue = X.unitPrice * q.
C6_ExactNameEstimate ==
    (/\ IsEstimate
     /\ call.arg.quantity.kind = "finite"
     /\ call.arg.quantity.val > 0) =>
        \A i \in NamedExactly :
            /\ result # {}
            /\ Describes(TheEstimate, inventory[i], call.arg.quantity.val)

\* the catalog positions that outrank or tie with a name match of n: a
\* normalized SKU equal to n, or a normalized name that contains n or is
\* contained in n
SkuEquals(n) == {i \in DOMAIN inventory : Normalize({inventory[i].sku}) = n}
NameRelated(n) ==
    {i \in DOMAIN inventory :
        \/ Includes(Normalize({inventory[i].name}), n)
        \/ Includes(n, Normalize({inventory[i].name}))}

\* X is the top-ranked item for the identifier n
RanksFirst(i, n) ==
    IF SkuEquals(n) # {} THEN i = Least(SkuEquals(n))
    ELSE i = Least(NameRelated(n))

\* C6 as amended: the same, provided X's normalized name is not empty and X
\* is the first catalog item whose normalized SKU equals it or, when no SKU
\* equals it, the first item whose normalized name contains it or is contained
\* in it.
C6_ExactNameEstimateWhenRankedFirst ==
    (/\ IsEstimate
     /\ call.arg.quantity.kind = "finite"
     /\ call.arg.quantity.val > 0) =>
        \A i \in NamedExactly :
            LET n == Normalize({inventory[i].name})
            IN  (n # <<>> /\ RanksFirst(i, n)) =>
                    /\ result # {}
                    /\ Describes(TheEstimate, inventory[i], call.arg.quantity.val)

\* "Am Mi" at 72 a unit, 50 units: 3600, with other items before it in the
\* catalog, one of them with a quantityAtRisk of its own
C6_Witness ==
    /\ IsEstimate
    /\ call.arg.nameOrSku = <<"A", "m", " ", "M", "i">>
    /\ call.arg.quantity = Finite(50)
    /\ \E i \in NamedExactly :
          /\ i > 1
          /\ RanksFirst(i, Normalize({inventory[i].name}))
          /\ inventory[i].unitPrice = 72
          /\ \E j \in 1..(i - 1) : inventory[j].quantityAtRisk # {}
    /\ result # {}
    /\ TheEstimate.totalValue = 3600
    /\ TheEstimate.perUnitValue = 72
    /\ TheEstimate.quantity = 50

\* C7: every estimate returned has perUnitValue = item.unitPrice and
\* totalValue = perUnitValue * quantity, for the item it carries.
C7_EstimateArithmetic ==
    (IsEstimate /\ result # {}) =>
        /\ TheEstimate.perUnitValue = TheEstimate.item.unitPrice
        /\ TheEstimate.totalValue = TheEstimate.perUnitValue * TheEstimate.quantity

\* an estimate for a non-finite quantity, built on the item's quantityAtRisk
C7_Witness ==
    /\ IsEstimate
    /\ call.arg.quantity = PosInfinity
    /\ result # {}
    /\ TheEstimate.item.quantityAtRisk = {TheEstimate.quantity}
    /\ TheEstimate.totalValue > 0

-----------------------------------------------------------------------------
(* Properties of resolveInventoryItem *)

IsResolve == call.op = "resolveInventoryItem"

\* C8: resolveItem returns none for a query that is empty once normalized;
\* otherwise the first catalog item whose normalized SKU or name equals the
\* normalized query; only when there is none, the first item whose normalized
\* name contains it; a SKU is never matched by substring.
C8_ResolveOrder ==
    IsResolve =>
        LET q == Normalize({call.arg})
            exact == {i \in DOMAIN inventory :
                         \/ Normalize({inventory[i].sku}) = q
                         \/ Normalize({inventory[i].name}) = q}
            inside == {i \in DOMAIN inventory :
                          Includes(Normalize({inventory[i].name}), q)}
        IN  IF q = <<>> THEN result = {}
            ELSE IF exact # {} THEN result = {inventory[Least(exact)]}
            ELSE IF inside # {} THEN result = {inventory[Least(inside)]}
            ELSE result = {}

\* the exact match is returned although an earlier item's name contains the
\* query
C8_Witness ==
    /\ IsResolve
    /\ result # {}
    /\ LET found == CHOOSE r \in result : TRUE
       IN  /\ found.id > 1
           /\ Normalize({found.name}) = Normalize({call.arg})
           /\ \E j \in 1..(found.id - 1) :
                 /\ Includes(Normalize({inventory[j].name}), Normalize({call.arg}))
                 /\ Normalize({inventory[j].name}) # Normalize({call.arg})

-----------------------------------------------------------------------------
(* Properties of getExpiringItems *)

IsExpiring == call.op = "getExpiringItems"

\* C9: expiringItems(withinDays) returns exactly the catalog items whose
\* daysUntilExpiry is present and at most withinDays, in ascending order of
\* daysUntilExpiry; without an argument withinDays is 30.
C9_ExpiringItems ==
    IsExpiring =>
        LET withinDays == IF call.arg = {} THEN 30 ELSE CHOOSE d \in call.arg : TRUE
            due == {i \in DOMAIN inventory :
                       \E d \in inventory[i].daysUntilExpiry : d <= withinDays}
        IN  /\ Len(result) = Cardinality(due)
            /\ {result[p] : p \in DOMAIN result} = {inventory[i] : i \in due}
            /\ \A p, r \in DOMAIN result :
                  p < r => \E d \in result[p].daysUntilExpiry :
                           \E e \in result[r].daysUntilExpiry : d <= e

\* no argument: an item due in exactly 30 days is returned, after a later,
\* sooner-due item, while items due in 31 days or without a date are not
C9_Witness ==
    /\ IsExpiring
    /\ call.arg = {}
    /\ \E i \in DOMAIN inventory : inventory[i].daysUntilExpiry = {31}
    /\ \E i \in DOMAIN inventory : inventory[i].daysUntilExpiry = {}
    /\ \E p \in DOMAIN result : result[p].daysUntilExpiry = {30}
    /\ \E p \in 1..(Len(result) - 1) : result[p].id > result[p + 1].id

-----------------------------------------------------------------------------
(* The catalog *)

\* C10: after any sequence of calls the catalog holds the same items in the
\* same order as at load time.
C10_CatalogUnchanged == inventory = inventoryData

\* a call has just sorted and dropped items: what it returned is in another
\* order than the catalog and shorter
C10_Witness ==
    /\ IsExpiring
    /\ Len(result) >= 2
    /\ Len(result) < Len(inventory)
    /\ result[1].id > result[2].id
    /\ inventory = inventoryData

-----------------------------------------------------------------------------
(* The primary pass *)

\* the criteria, in the order the tiers are tried
Criteria == <<"sku", "name", "brand", "category">>

\* the query with every field normalized, an absent field as the empty
\* string
NormalQuery(query) ==
    [sku |-> Normalize(Field(query, "sku")),
     name |-> Normalize(Field(query, "name")),
     brand |-> Normalize(Field(query, "brand")),
     category |-> Normalize(Field(query, "category"))]

\* criterion c fires for the item value v under the query value q, both
\* normalized: q is not empty and v equals it (sku), contains it or is
\* contained in it (name), or contains it (brand, category)
Fires(c, v, q) ==
    /\ q # <<>>
    /\ CASE c = "sku" -> v = q
          [] c = "name" -> Includes(v, q) \/ Includes(q, v)
          [] OTHER -> Includes(v, q)

\* the criteria that fire, as positions in Criteria
FiringFor(item, nq) ==
    {k \in DOMAIN Criteria :
        Fires(Criteria[k], Normalize({item[Criteria[k]]}), nq[Criteria[k]])}

Firing(item, query) == FiringFor(item, NormalQuery(query))

\* ten times the confidence of the tier, in whole numbers
TierTenths == <<10, 9, 6, 4>>

\* C13: in the primary pass every item is tagged by the first criterion that
\* fires for it in the order sku, name, brand, category, with the confidence
\* of that tier (1.0, 0.9, 0.6, 0.4); a criterion of lower priority never
\* decides the tag of an item for which one of higher priority fires.
C13_FirstCriterionTags ==
    (IsFind /\ path = "primary") =>
        \A p \in DOMAIN result :
            LET firing == Firing(result[p].item, call.arg)
            IN  /\ firing # {}
                /\ result[p].matchedBy = Criteria[Least(firing)]
                /\ 10 * result[p].matchConfidence
                      = TierTenths[Least(firing)] * ConfScale

\* one answer holds an item tagged name for which brand and category fire as
\* well, and an item tagged brand for which category fires as well
C13_Witness ==
    /\ IsFind
    /\ path = "primary"
    /\ \E p \in DOMAIN result :
          /\ result[p].matchedBy = "name"
          /\ {2, 3, 4} \subseteq Firing(result[p].item, call.arg)
    /\ \E p \in DOMAIN result :
          /\ result[p].matchedBy = "brand"
          /\ Firing(result[p].item, call.arg) = {3, 4}

\* the tier that tags each catalog position: the place in Criteria of the
\* first criterion that fires for it, 0 when none fires
Tiers(inv, query) ==
    LET nq == NormalQuery(query)
    IN  Array([i \in DOMAIN inv |->
            LET firing == FiringFor(inv[i], nq)
            IN  IF firing = {} THEN 0 ELSE Least(firing)])

\* the catalog positions for which some criterion fires
AnyFires ==
    LET tier == Tiers(inventory, call.arg)
    IN  {i \in DOMAIN tier : tier[i] # 0}

\* the primary-pass list, sorted and cut to five: a position comes after
\* every position of a higher tier and every earlier position of its own tier
RankedPrimary ==
    LET tier == Tiers(inventory, call.arg)
        fired == {i \in DOMAIN tier : tier[i] # 0}
        Rank(i) == 1 + Cardinality({j \in fired :
                          tier[j] < tier[i] \/ (tier[j] = tier[i] /\ j < i)})
    IN  Array([p \in 1..Min(5, Cardinality(fired)) |->
            LET i == CHOOSE j \in fired : Rank(j) = p
            IN  [item |-> inventory[i],
                 matchConfidence |-> (TierTenths[tier[i]] * ConfScale) \div 10,
                 matchedBy |-> Criteria[tier[i]]]])

\* C15: the fuzzy fallback decides the result only when no primary criterion
\* fires for any item and query.name is not empty: as soon as one item fires a
\* criterion (brand or category included) the result is the sorted, truncated
\* primary-pass list with its tier confidences, and when query.name is empty
\* and nothing fires the result is empty.
C15_FallbackOnlyWhenPrimaryEmpty ==
    IsFind =>
        LET fired == AnyFires
            name == Normalize(Field(call.arg, "name"))
        IN  /\ path = "fuzzy" => fired = {} /\ name # <<>>
            /\ fired # {} => path = "primary" /\ result = RankedPrimary
            /\ (fired = {} /\ name = <<>>) => result = <<>>

\* a name is given that the fallback would have matched above the
\* threshold, but an item fires the brand criterion: the answer holds brand
\* and category matches only
C15_Witness ==
    /\ IsFind
    /\ path = "primary"
    /\ result # <<>>
    /\ \A p \in DOMAIN result : result[p].matchedBy \in {"brand", "category"}
    /\ Normalize(Field(call.arg, "name")) # <<>>
    /\ \E i \in DOMAIN inventory :
          10 * FuzzyConfidence(Normalize({inventory[i].name}),
                               Normalize(Field(call.arg, "name")))
              > 3 * ConfScale

\* C19: when the fallback is not used the result is the first five of the
\* primary matches stably sorted by descending confidence: equal confidences
\* come in catalog order, and every matching item left out has a confidence at
\* most that of every returned result and, when equal, stands later in the
\* catalog than the returned results of that confidence.
C19_StableTopFive ==
    (IsFind /\ path = "primary") =>
        LET tier == Tiers(inventory, call.arg)
            fired == {i \in DOMAIN tier : tier[i] # 0}
            returned == {result[p].item.id : p \in DOMAIN result}
            Conf(i) == (TierTenths[tier[i]] * ConfScale) \div 10
        IN  /\ Len(result) = Min(5, Cardinality(fired))
            /\ Cardinality(returned) = Len(result)
            /\ returned \subseteq fired
            /\ \A p \in DOMAIN result :
                  /\ result[p].item = inventory[result[p].item.id]
                  /\ result[p].matchConfidence = Conf(result[p].item.id)
            /\ \A p, r \in DOMAIN result :
                  p < r =>
                      \/ result[p].matchConfidence > result[r].matchConfidence
                      \/ /\ result[p].matchConfidence = result[r].matchConfidence
                         /\ result[p].item.id < result[r].item.id
            /\ \A i \in fired \ returned : \A p \in DOMAIN result :
                  \/ Conf(i) < result[p].matchConfidence
                  \/ Conf(i) = result[p].matchConfidence /\ i > result[p].item.id

\* six items match in more than one tier; the sort moves a later item ahead
\* of an earlier one, and the item left out ties with the last one returned
C19_Witness ==
    /\ IsFind
    /\ path = "primary"
    /\ Cardinality(AnyFires) = 6
    /\ Len(result) = 5
    /\ result[1].matchConfidence > result[5].matchConfidence
    /\ \E p \in 1..4 : result[p].item.id > result[p + 1].item.id
    /\ \E i \in AnyFires :
          /\ \A p \in DOMAIN result : result[p].item.id # i
          /\ i > result[5].item.id
          /\ Firing(inventory[i], call.arg) = Firing(result[5].item, call.arg)

\* C20: no catalog item appears more than once in a sequence returned by
\* matchItems, whether the primary pass or the fuzzy fallback produced it (the
\* catalog lists each item once: its entries are distinct objects).
C20_NoItemTwice ==
    IsFind =>
        \A p, r \in DOMAIN result :
            p # r => result[p].item.id # result[r].item.id

\* three or more results, one of them an item for which the name, brand and
\* category criteria all fire
C20_Witness ==
    /\ IsFind
    /\ Len(result) >= 3
    /\ \E p \in DOMAIN result :
          Cardinality(Firing(result[p].item, call.arg)) >= 3
    /\ \A p, r \in DOMAIN result :
          p # r => result[p].item.id # result[r].item.id

-----------------------------------------------------------------------------
(* The fuzzy fallback *)

\* the tokens of a name, each given by the positions just before and just
\* after it: the pieces between single spaces
TokenBounds(n) ==
    LET cuts == {0, Len(n) + 1} \cup {i \in DOMAIN n : n[i] = " "}
    IN  {<<a, b>> \in cuts \X cuts :
            a < b /\ \A c \in cuts : ~(a < c /\ c < b)}

\* 100 * tokenCount * (overlap / tokenCount - lengthDiff * 0.02), a whole
\* number, with tokenCount itself for the item name n and the query name q
Score(n, q) ==
    LET bounds == TokenBounds(n)
        overlap == Cardinality({t \in bounds :
                       Includes(q, SubSeq(n, t[1] + 1, t[2] - 1))})
        count == Cardinality(bounds)
        lengthDiff == IF Len(n) >= Len(q) THEN Len(n) - Len(q)
                      ELSE Len(q) - Len(n)
    IN  [hundredfold |-> 100 * overlap - 2 * lengthDiff * count,
         count |-> count]

\* C17: when the fallback is triggered (no primary criterion fires and the
\* query name is not empty) the result is the first three, or fewer, of the
\* items whose confidence max(0.2, overlap / max(1, tokenCount) -
\* lengthDiff * 0.02) is strictly above 0.3, in descending order of
\* confidence (catalog order among equals), each with exactly that confidence
\* and matchedBy name; it is empty when no item is above 0.3.
C17_FuzzyResult ==
    (IsFind /\ Normalize(Field(call.arg, "name")) # <<>> /\ AnyFires = {}) =>
        LET q == Normalize(Field(call.arg, "name"))
            score == Array([i \in DOMAIN inventory |->
                         Score(Normalize({inventory[i].name}), q)])
            above == {i \in DOMAIN inventory :
                         score[i].hundredfold > 30 * score[i].count}
            returned == {result[p].item.id : p \in DOMAIN result}
        IN  /\ Len(result) = Min(3, Cardinality(above))
            /\ Cardinality(returned) = Len(result)
            /\ returned \subseteq above
            /\ \A p \in DOMAIN result :
                  LET i == result[p].item.id
                  IN  /\ result[p].item = inventory[i]
                      /\ result[p].matchedBy = "name"
                      /\ 100 * score[i].count * result[p].matchConfidence
                            = ConfScale * score[i].hundredfold
            /\ \A p, r \in DOMAIN result :
                  p < r =>
                      \/ result[p].matchConfidence > result[r].matchConfidence
                      \/ /\ result[p].matchConfidence = result[r].matchConfidence
                         /\ result[p].item.id < result[r].item.id
            /\ \A i \in above \ returned : \A p \in DOMAIN result :
                  score[i].hundredfold * score[result[p].item.id].count
                      <= score[result[p].item.id].hundredfold * score[i].count

\* the fallback answers with three items of two different confidences, both
\* lowered by the difference of lengths, leaves a fourth item above 0.3 out
\* and an item below 0.3 too
C17_Witness ==
    /\ IsFind
    /\ path = "fuzzy"
    /\ Len(result) = 3
    /\ result[1].matchConfidence > result[3].matchConfidence
    /\ result[1].matchConfidence < ConfScale
    /\ result[1].item.id > result[3].item.id
    /\ LET q == Normalize(Field(call.arg, "name"))
           Above(i) == LET sc == Score(Normalize({inventory[i].name}), q)
                       IN  sc.hundredfold > 30 * sc.count
       IN  /\ Cardinality({i \in DOMAIN inventory : Above(i)}) >= 4
           /\ \E i \in DOMAIN inventory : ~Above(i)

\* the positions of the items named "Amul Milk 500ml"
AmulMilkAt == {i \in DOMAIN inventory : inventory[i].name = AmulMilk.name}

\* position j is no candidate for the query: no criterion fires for it and
\* no token of its name occurs in the query name
NoCandidate(j) ==
    LET n == Normalize({inventory[j].name})
        q == Normalize(Field(call.arg, "name"))
    IN  /\ Firing(inventory[j], call.arg) = {}
        /\ \A t \in TokenBounds(n) : ~Includes(q, SubSeq(n, t[1] + 1, t[2] - 1))

\* the query names "I think the amul milk is going bad" and nothing else, and
\* the one candidate of the catalog is an item named "Amul Milk 500ml"
AmulMilkCase ==
    /\ IsFind
    /\ Field(call.arg, "name") = {LongName}
    /\ \A f \in Fields \ {"name"} : BlankField(call.arg, f)
    /\ Cardinality(AmulMilkAt) = 1
    /\ \A j \in DOMAIN inventory \ AmulMilkAt : NoCandidate(j)

\* C18 as claimed: for a catalog whose only candidate is an item named
\* "Amul Milk 500ml" and the query name "I think the amul milk is going bad",
\* the primary pass yields nothing and the fallback returns that item with
\* the confidence max(0.2, overlap / tokenCount - lengthDiff * 0.02) of the
\* pair.
C18_FallbackReturnsAmulMilk ==
    AmulMilkCase =>
        LET i == Least(AmulMilkAt)
            sc == Score(Normalize({inventory[i].name}),
                        Normalize(Field(call.arg, "name")))
        IN  /\ AnyFires = {}
            /\ Len(result) = 1
            /\ result[1].item = inventory[i]
            /\ 100 * sc.count * result[1].matchConfidence
                  = ConfScale * Max(20 * sc.count, sc.hundredfold)

\* C18 as amended: for that catalog and query the primary pass yields
\* nothing, the confidence of the pair, max(0.2, 2/3 - 19 * 0.02), is below
\* 0.3, the fallback keeps no item and the result is the empty sequence.
C18_FallbackKeepsNothing ==
    AmulMilkCase =>
        LET i == Least(AmulMilkAt)
            sc == Score(Normalize({inventory[i].name}),
                        Normalize(Field(call.arg, "name")))
        IN  /\ AnyFires = {}
            /\ sc.count = 3
            /\ sc.hundredfold = 100 * 2 - 2 * 19 * 3
            /\ Max(20 * sc.count, sc.hundredfold) < 30 * sc.count
            /\ result = <<>>

\* the query asked of a catalog that holds the item between two others
C18_Witness ==
    /\ AmulMilkCase
    /\ Len(inventory) = 3
    /\ AmulMilkAt = {2}
    /\ result = <<>>
    /\ path = "primary"

-----------------------------------------------------------------------------
(* Normalization of the query *)

\* the upper-case form of the letters ToLocaleLowerCase maps
UpperChar(c) ==
    CASE c = "a" -> "A"
      [] c = "b" -> "B"
      [] c = "c" -> "C"
      [] c = "d" -> "D"
      [] c = "g" -> "G"
      [] c = "h" -> "H"
      [] c = "i" -> "I"
      [] c = "m" -> "M"
      [] OTHER -> c

\* the query with every field it has in upper case, a space before it and a
\* tab after it
Shouted(query) ==
    [f \in DOMAIN query |->
        <<" ">> \o [i \in DOMAIN query[f] |-> UpperChar(query[f][i])] \o <<"\t">>]

Greatest(S) == CHOOSE i \in S : \A j \in S : i >= j

\* the query with every field in lower case and without the whitespace
\* around it, a field that is blank left out
Stripped(query) ==
    LET lower == [f \in DOMAIN query |->
                     LET s == query[f]
                         keep == {i \in DOMAIN s : s[i] \notin {" ", "\t"}}
                     IN  IF keep = {} THEN <<>>
                         ELSE [i \in 1..(Greatest(keep) - Least(keep) + 1) |->
                                 LowerChar(s[Least(keep) + i - 1])]]
    IN  [f \in {g \in DOMAIN query : lower[g] # <<>>} |-> lower[f]]

\* C14: the result of matchItems does not change with the case of the query
\* fields nor with whitespace around them, and normalize is idempotent: a
\* query and its upper-cased, padded form, and its lower-cased, trimmed form,
\* have the same normalized fields and get the same result sequence on the
\* same catalog.
C14_CaseAndWhitespaceInsensitive ==
    IsFind =>
        /\ \A f \in Fields :
              Normalize({Normalize(Field(call.arg, f))})
                  = Normalize(Field(call.arg, f))
        /\ \A v \in {Shouted(call.arg), Stripped(call.arg)} :
              /\ NormalQuery(v) = NormalQuery(call.arg)
              /\ FindInventoryMatches(inventory, v).returned = result

\* a SKU written "M1 " finds the items written "M1" and " m1 ", as do its
\* forms " M1 <tab>" and "m1"
C14_Witness ==
    /\ IsFind
    /\ Field(call.arg, "sku") = {<<"M", "1", " ">>}
    /\ Field(Stripped(call.arg), "sku") = {<<"m", "1">>}
    /\ Field(Shouted(call.arg), "sku") = {<<" ", "M", "1", " ", "\t">>}
    /\ Len(result) >= 2
    /\ \E p, r \in DOMAIN result :
          /\ result[p].matchedBy = "sku" /\ result[p].item.sku = <<"M", "1">>
          /\ result[r].matchedBy = "sku"
          /\ result[r].item.sku = <<" ", "m", "1", " ">>
    /\ FindInventoryMatches(inventory, Shouted(call.arg)).returned = result

-----------------------------------------------------------------------------
(* The call without a query object *)

IsFindUndefined == call.op = "findInventoryMatches(undefined)"

\* C12 as claimed: matchItems called with an absent (undefined) query object
\* behaves as with four empty fields: it returns the empty sequence and
\* raises no error.
C12_AbsentQueryMatchesNothing ==
    IsFindUndefined => path # "throw" /\ result = <<>>

-----------------------------------------------------------------------------
(* Overlapping calls *)

\* what the call in `call` returns when it is the only call made on the
\* catalog as loaded
ReturnedAlone ==
    CASE call.op = "getInventory" -> inventoryData
      [] call.op = "findInventoryMatches" ->
            FindInventoryMatches(inventoryData, call.arg).returned
      [] call.op = "resolveInventoryItem" ->
            ResolveInventoryItem(inventoryData, call.arg)
      [] call.op = "getExpiringItems" ->
            GetExpiringItems(inventoryData, call.arg).returned
      [] call.op = "estimateLossForItem" ->
            EstimateLossForItem(inventoryData, call.arg.nameOrSku,
                                call.arg.quantity).returned

\* C11: however matchItems, resolveItem, estimateLoss and expiringItems
\* calls overlap, an estimateLoss suspended at its await included, each call
\* returns what it returns when run alone on the catalog, and a suspended
\* estimateLoss holds the matches it would have found alone.
C11_ResultsAsIfAlone ==
    /\ call.op # "idle" => result = ReturnedAlone
    /\ \A k \in DOMAIN suspended :
          suspended[k].matches
              = FindInventoryMatches(inventoryData,
                                     LossQuery(suspended[k].nameOrSku)).returned

\* expiringItems has returned, sorted, while two estimateLoss calls that
\* found different items wait at their await
C11_Witness ==
    /\ IsExpiring
    /\ \E p \in 1..(Len(result) - 1) : result[p].id > result[p + 1].id
    /\ Len(suspended) = 2
    /\ suspended[1].matches # <<>>
    /\ suspended[2].matches # <<>>
    /\ suspended[1].matches[1].item.id # suspended[2].matches[1].item.id

-----------------------------------------------------------------------------
(* C16: the displayed new price and recovered revenue *)

\* max(floor(currentPrice * (1 - discount / 100)), 0) in exact arithmetic, for
\* a finite price
ExactNewPrice(currentPrice, discount) ==
    Max((currentPrice.val * (100 - discount)) \div 100, 0)

\* C16: in the FlashSaleBuilder, after any sequence of discount-slider
\* changes (10..90 in steps of 5), the displayed new price is
\* max(floor(currentPrice * (1 - discount/100)), 0) for the current discount
\* and the displayed recovered revenue is that new price times max(stock, 0);
\* neither value is negative or stale with respect to the current discount.
\* The price and the stock are finite numbers here, and the formula is taken
\* in exact arithmetic.
C16_DisplayedSaleValues ==
    (NumberIsFinite(sale.currentPrice) /\ NumberIsFinite(sale.stock)) =>
        /\ sale.shown.newPrice =
               FormatCurrency(ExactNewPrice(sale.currentPrice, sale.discount))
        /\ sale.shown.recoveredRevenue =
               FormatCurrency(ExactNewPrice(sale.currentPrice, sale.discount)
                                  * Max(sale.stock.val, 0))

-----------------------------------------------------------------------------
(* The estimate and the matches it is built from *)

\* the call passed the guard of estimateLossForItem
PassedGuard ==
    IsEstimate /\ Truthy(call.arg.nameOrSku) /\ ~LeZero(call.arg.quantity)

\* findInventoryMatches({name: nameOrSku, sku: nameOrSku}) on the catalog
MatchesOfIdentifier ==
    FindInventoryMatches(inventory,
                         [f \in {"name", "sku"} |-> call.arg.nameOrSku]).returned

C22_EffectiveQuantity ==
    (PassedGuard /\ result # {}) =>
        \E atRisk \in {TheEstimate.item.quantityAtRisk} :
            \E used \in {IF call.arg.quantity.kind = "finite"
                         THEN call.arg.quantity.val
                         ELSE IF atRisk = {} THEN 0
                         ELSE CHOOSE q \in atRisk : TRUE} :
                /\ TheEstimate.quantity = used
                /\ TheEstimate.totalValue = TheEstimate.item.unitPrice * used

\* a quantity of NaN, which the guard lets through, put on an item with a
\* quantityAtRisk: the estimate is for that many units
C22_Witness ==
    /\ PassedGuard
    /\ call.arg.quantity = NaN
    /\ result # {}
    /\ TheEstimate.item.quantityAtRisk # {}
    /\ TheEstimate.item.quantityAtRisk = {TheEstimate.quantity}
    /\ TheEstimate.totalValue = TheEstimate.item.unitPrice * TheEstimate.quantity
    /\ TheEstimate.totalValue > 0

-----------------------------------------------------------------------------
(* resolveInventoryItem and findInventoryMatches on the same identifier *)

\* finite quantities above 0
PositiveQuantities == {Finite(1), Finite(50)}

\* C23: whenever resolveItem(q) returns an item, matchItems({sku: q, name: q})
\* is not empty, comes from the primary pass and never from the fuzzy
\* fallback, and its first result has a confidence of at least 0.9;
\* estimateLoss(q, n) then returns an estimate for every finite n > 0.
C23_ResolvedIsMatched ==
    (IsResolve /\ result # {}) =>
        /\ \E found \in {FindInventoryMatches(
                             inventory,
                             [f \in {"sku", "name"} |-> call.arg])} :
              /\ Len(found.returned) # 0
              /\ found.path = "primary"
              /\ found.returned[1].matchConfidence >= ConfName
        /\ \A n \in PositiveQuantities :
              EstimateLossForItem(inventory, call.arg, n).returned # {}

\* an item resolved by the substring pass only: no SKU or name equals the
\* query
C23_Witness ==
    /\ IsResolve
    /\ result # {}
    /\ ExactHits(inventory, Normalize({call.arg})) = {}
    /\ FindInventoryMatches(inventory,
                            [f \in {"sku", "name"} |-> call.arg]).returned[1]
           .matchConfidence = ConfName

-----------------------------------------------------------------------------
(* C24: the consumers selected and the consumers listed *)

\* C24: in the FlashSaleBuilder, after any sequence of toggleConsumer,
\* selectAll, deselectAll actions and changes of the category prop, every
\* selected consumer id belongs to the currently relevant (subscribed,
\* category-matching) consumers, so the count shown on the send button
\* (selectedConsumers.size) equals the count shown in the sent confirmation
\* (selectedList.length).
C24_SelectedAreRelevant ==
    /\ sale.selectedConsumers \subseteq IdsOf(RelevantConsumers(sale.category))
    /\ Cardinality(sale.selectedConsumers) = Len(sale.selectedList)

-----------------------------------------------------------------------------
(* C25: one send, one reset timer *)

\* a step that is a send: it starts a reset timer
SendStep == sale'.timers = sale.timers + 1

\* C25: in the FlashSaleBuilder the send action fires only when at least one
\* consumer is selected and emailsSent is false; each send sets emailsSent to
\* true; emailsSent is eventually reset to false by the 3-second timer; no
\* second send occurs while emailsSent is true, and so at most one reset timer
\* is pending at any time.
C25_OneSendUntilReset ==
    /\ [][SendStep =>
            /\ sale.selectedConsumers # {}
            /\ ~sale.emailsSent
            /\ sale'.emailsSent]_vars
    /\ [](sale.timers <= 1 /\ (sale.emailsSent <=> sale.timers = 1))
    /\ (sale.emailsSent ~> ~sale.emailsSent)

\* the emails are sent and the reset timer is pending: the button is disabled
\* with consumers still selected
C25_Witness ==
    /\ sale.emailsSent
    /\ sale.timers = 1
    /\ sale.selectedConsumers # {}
    /\ sale.shown.sendButton.disabled

=============================================================================
